---- MODULE Spec2Model ----
(***************************************************************************)
(* ppool.py: map() over a pool of workers whose standard output is routed  *)
(* per worker identity by MultiStdOut.                                     *)
(*                                                                         *)
(* A context is one thread of control: the orchestrator (the caller of     *)
(* map), a pool worker, or another thread of the main process that prints  *)
(* while the router is installed.  Every `with self.lock:` block is two    *)
(* steps (acquire, body+release); the block write of _dump appends the     *)
(* block to the real sink one unit at a time while the lock is held, so    *)
(* the sink gives no atomicity of its own.                                 *)
(*                                                                         *)
(* multiprocessing is modelled by its contract: a pool of `processes`      *)
(* workers, each taking the next item of the queue (chunksize 1, which is  *)
(* what len(iterable) <= 4 * processes gives); map blocks until every item *)
(* has a result and then re-raises the first failure; process workers are  *)
(* forked when the pool is created and share the lock and the sink.        *)
(***************************************************************************)
EXTENDS Integers, Sequences, FiniteSets, TLC

\* len(iterable)
NumItems == 2
\* write calls started in one run, by all contexts together
MaxWrites == 3

Orch == 0
Workers == 1 .. NumItems
Outsider == NumItems + 1
Invoker == NumItems + 2
Other == NumItems + 3
Ctx == 0 .. (NumItems + 3)
Items == 1 .. NumItems
NoCtx == 0 - 1

MainProcess == <<"MainProcess", 0>>
MainThread == <<"MainThread", 0>>
WorkThread == <<"Thread", 0>>
UserThread == <<"UserThread", 0>>
OtherThread == <<"OtherThread", 0>>
SecondThread == <<"SecondThread", 0>>
o_out == <<"sys.stdout", 0>>
EmptyOuts == << >>

VARIABLES
    args,      \* the arguments of the map() call and the calling thread
    loc,       \* map()'s locals after lines 106-114
    pc,        \* position of every context
    outs,      \* MultiStdOut.outs of every process: identity -> stream
    lock,      \* holder of MultiStdOut.lock, NoCtx when free
    stdout,    \* sys.stdout of every process
    saved,     \* redirect_stdout's old target, per context
    files,     \* content of the temporary file of every session
    sink,      \* what the real sink has received
    queue,     \* items the pool has not handed out yet
    task,      \* the item a worker is running, 0 when none
    result,    \* per item: "none", "ok" or the error it ended with
    failure,   \* the first failure the pool recorded, <<item, error>>
    outcome,   \* of the map() call: "running", "returned" or an error
    exc,       \* the exception a context is unwinding with
    wreal,     \* `real` of the write a context is performing
    dout,      \* the stream _dump looked up (its local `out`)
    block,     \* what _dump has read and not yet written to the sink
    hist,      \* per writer: `real` of every write it has performed
    ncalls,    \* per writer: write calls started
    invoked    \* per item: times the work wrapper was called

vars == <<args, loc, pc, outs, lock, stdout, saved, files, sink, queue,
          task, result, failure, outcome, exc, wreal, dout, block, hist,
          ncalls, invoked>>

Procs == {MainProcess} \cup {<<"ForkPoolWorker", w>> : w \in Workers}
Keys == 0 .. (NumItems + 3)

\* The process a context runs in: a worker of a process pool is a process.
procName(c) ==
    IF c \in Workers /\ loc.poolcls = "Pool"
    THEN <<"ForkPoolWorker", c>> ELSE MainProcess

\* The name of the thread a context runs on.
threadName(c) ==
    CASE c = Orch -> args.caller
      [] c = Invoker -> args.caller
      [] c = Outsider -> OtherThread
      [] c = Other -> SecondThread
      [] OTHER -> IF loc.poolcls = "Pool" THEN MainThread ELSE <<"Thread", c>>

\* MultiStdOut.id
id(c) ==
    IF procName(c) = MainProcess THEN threadName(c) ELSE procName(c)

\* The writer a context's output is attributed to: the item a worker runs.
key(c) == IF c \in Workers THEN task[c] ELSE c

\* One temporary file that every session uses.
tmpfileShared(c) == <<"tmp", Orch>>

tmpfile(c) == <<"tmp", key(c)>>
router(c) == <<"MultiStdOut", key(c)>>
IsRouter(s) == s[1] = "MultiStdOut"
registry(c) == outs[procName(c)]

NoExc == <<"none", 0>>
Missing == <<"KeyError", 0>>
Running == <<"running", 0>>
Returned == <<"returned", 0>>
NoFailure == <<0, NoExc>>

\* What the caller may pass to map(); processes = 0 stands for "not given".
\* `caller` is the thread map() is called on; `outer` tells whether that
\* thread is itself running a work item of an enclosing map() call.  A worker
\* count is passed where it differs from the default or is overridden.
ArgSets ==
    {a \in [threaded : BOOLEAN, fg : BOOLEAN, buffered : BOOLEAN,
            processes : {0, 1, NumItems}, caller : {MainThread},
            outer : {"none"}] :
        \/ a.processes = 0
        \/ a.fg /\ a.processes = NumItems
        \/ ~a.fg /\ a.threaded /\ a.buffered /\ a.processes = 1}

InitWith(A) ==
    /\ args \in A
    /\ loc = [poolcls |-> "none", processes |-> 0, buffered |-> FALSE,
              call |-> "none"]
    /\ pc = [c \in Ctx |->
               CASE c = Orch -> "start"
                 [] c = Outsider -> "idle"
                 [] OTHER -> "absent"]
    /\ outs = [p \in Procs |-> EmptyOuts]
    /\ lock = NoCtx
    /\ stdout = [p \in Procs |-> o_out]
    /\ saved = [c \in Ctx |-> o_out]
    /\ files = [k \in Keys |-> << >>]
    /\ sink = << >>
    /\ queue = << >>
    /\ task = [w \in Workers |-> 0]
    /\ result = [i \in Items |-> NoExc]
    /\ failure = NoFailure
    /\ outcome = Running
    /\ exc = [c \in Ctx |-> NoExc]
    /\ wreal = [c \in Ctx |-> FALSE]
    /\ dout = [c \in Ctx |-> o_out]
    /\ block = [c \in Ctx |-> << >>]
    /\ hist = [k \in Keys |-> << >>]
    /\ ncalls = [k \in Keys |-> 0]
    /\ invoked = [i \in Items |-> 0]

Ok == <<"ok", 0>>

\* self.buffered of the MultiStdOut a context creates.
buffered(c) ==
    CASE c = Invoker -> args.outer = "buffered"
      [] c = Other -> TRUE
      [] OTHER -> loc.buffered

\* Whether the context's MultiStdOut is wrapped in redirect_stdout.
Redirects(c) ==
    \/ c = Orch
    \/ c = Other
    \/ c \in Workers /\ loc.call = "ProcessCallable"

\* Where a context is while the body of its `with` block runs.
Body(c) ==
    CASE c = Orch -> "wait"
      [] c = Outsider -> "idle"
      [] c = Other -> "running"
      [] OTHER -> "func"

\* Where a context goes when the body of its `with` block ends or raises.
Unwind(c) ==
    CASE c = Outsider -> "idle"
      [] Redirects(c) -> "unredirect"
      [] OTHER -> "dump"

\* `with self.lock:` entered: the lock is taken when no context holds it.
\* (The lock is re-entrant, but no context comes to a `with self.lock:`
\* while it holds the lock.)
Acquire(c, from, to) ==
    /\ pc[c] = from
    /\ lock = NoCtx
    /\ lock' = c
    /\ pc' = [pc EXCEPT ![c] = to]
    /\ UNCHANGED <<args, loc, outs, stdout, saved, files, sink, queue, task,
                   result, failure, outcome, exc, wreal, dout, block, hist,
                   ncalls, invoked>>

---------------------------------------------------------------------------
\* map(), lines 106-114: the pool class, the worker count, the wrapper.
\* Resolve that leaves the worker count alone when fg is set.
ResolveKeepCount(a) ==
    [poolcls |-> IF a.fg \/ a.threaded THEN "ThreadPool" ELSE "Pool",
     processes |-> IF a.processes = 0 THEN NumItems ELSE a.processes,
     buffered |-> IF a.fg THEN FALSE ELSE a.buffered,
     call |-> IF a.threaded THEN "ThreadedCallable" ELSE "ProcessCallable"]

Resolve(a) ==
    [poolcls |-> IF a.fg \/ a.threaded THEN "ThreadPool" ELSE "Pool",
     processes |-> IF a.fg THEN 1
                   ELSE IF a.processes = 0 THEN NumItems ELSE a.processes,
     buffered |-> IF a.fg THEN FALSE ELSE a.buffered,
     call |-> IF a.threaded THEN "ThreadedCallable" ELSE "ProcessCallable"]

MapSetup ==
    /\ pc[Orch] = "start"
    /\ loc' = Resolve(args)
    /\ pc' = [pc EXCEPT ![Orch] = "pool"]
    /\ UNCHANGED <<args, outs, lock, stdout, saved, files, sink, queue,
                   task, result, failure, outcome, exc, wreal, dout, block,
                   hist, ncalls, invoked>>

\* Line 115: the pool starts its workers; a process worker is a fork of the
\* caller, with a copy of its registry and its sys.stdout.
PoolCreate ==
    /\ pc[Orch] = "pool"
    /\ pc' = [c \in Ctx |->
                IF c = Orch THEN "enter_lock"
                ELSE IF c \in 1 .. loc.processes THEN "idle" ELSE pc[c]]
    /\ outs' = [p \in Procs |->
                  IF loc.poolcls = "Pool" /\ p # MainProcess
                  THEN outs[MainProcess] ELSE outs[p]]
    /\ stdout' = [p \in Procs |->
                    IF loc.poolcls = "Pool" /\ p # MainProcess
                    THEN stdout[MainProcess] ELSE stdout[p]]
    /\ UNCHANGED <<args, loc, lock, saved, files, sink, queue, task, result,
                   failure, outcome, exc, wreal, dout, block, hist, ncalls,
                   invoked>>

\* Line 119: mapfunc(call, iterable) hands the items to the pool.
MapSubmit ==
    /\ pc[Orch] = "mapfunc"
    /\ queue' = [i \in Items |-> i]
    /\ pc' = [pc EXCEPT ![Orch] = "wait"]
    /\ UNCHANGED <<args, loc, outs, lock, stdout, saved, files, sink, task,
                   result, failure, outcome, exc, wreal, dout, block, hist,
                   ncalls, invoked>>

\* MapReady that is content with the first result.
MapReadyAny == \E i \in Items : result[i] # NoExc

\* The condition mapfunc waits for: every item has a result.
MapReady == \A i \in Items : result[i] # NoExc

\* Line 119: mapfunc returns, or re-raises the first failure recorded.
MapWait ==
    /\ pc[Orch] = "wait"
    /\ MapReady
    /\ exc' = [exc EXCEPT ![Orch] = failure[2]]
    /\ pc' = [pc EXCEPT ![Orch] = "unredirect"]
    /\ UNCHANGED <<args, loc, outs, lock, stdout, saved, files, sink, queue,
                   task, result, failure, outcome, wreal, dout, block, hist,
                   ncalls, invoked>>

\* Line 115, leaving `with poolcls(...)`: the pool is terminated and map()
\* returns, or the exception leaves map().
MapFinish ==
    /\ pc[Orch] = "finish"
    /\ pc' = [c \in Ctx |->
                IF c = Orch THEN "done"
                ELSE IF c \in Workers /\ pc[c] = "idle" THEN "stopped"
                ELSE pc[c]]
    /\ outcome' = IF exc[Orch] = NoExc THEN Returned ELSE exc[Orch]
    /\ UNCHANGED <<args, loc, outs, lock, stdout, saved, files, sink, queue,
                   task, result, failure, exc, wreal, dout, block, hist,
                   ncalls, invoked>>

---------------------------------------------------------------------------
\* A pool worker takes the next item and calls the work wrapper on it.
WorkerTake(w) ==
    /\ pc[w] = "idle"
    /\ queue # << >>
    /\ task' = [task EXCEPT ![w] = Head(queue)]
    /\ queue' = Tail(queue)
    /\ invoked' = [invoked EXCEPT ![Head(queue)] = @ + 1]
    /\ pc' = [pc EXCEPT ![w] = "enter_lock"]
    /\ UNCHANGED <<args, loc, outs, lock, stdout, saved, files, sink, result,
                   failure, outcome, exc, wreal, dout, block, hist, ncalls>>

\* The work wrapper has returned or raised: the pool records the result and
\* keeps the first failure.
WorkerFinish(w) ==
    /\ pc[w] = "finish"
    /\ result' = [result EXCEPT ![task[w]] =
                     IF exc[w] = NoExc THEN Ok ELSE exc[w]]
    /\ failure' = IF exc[w] # NoExc /\ failure = NoFailure
                  THEN <<task[w], exc[w]>> ELSE failure
    /\ exc' = [exc EXCEPT ![w] = NoExc]
    /\ task' = [task EXCEPT ![w] = 0]
    /\ pc' = [pc EXCEPT ![w] = "idle"]
    /\ UNCHANGED <<args, loc, outs, lock, stdout, saved, files, sink, queue,
                   outcome, wreal, dout, block, hist, ncalls, invoked>>

---------------------------------------------------------------------------
\* EnterDest that ignores self.buffered.
EnterDestAlwaysTmp(c) == IF id(c) = MainThread THEN o_out ELSE tmpfile(c)

\* EnterDest that never makes a temporary file.
EnterDestNeverTmp(c) == o_out

\* EnterDest without the test for 'MainThread'.
EnterDestNoMain(c) == IF ~buffered(c) THEN o_out ELSE tmpfile(c)

\* The stream __enter__ registers: the real sink when the session is not
\* buffered or the identity is 'MainThread', else a new temporary file.
EnterDest(c) ==
    IF ~buffered(c) \/ id(c) = MainThread THEN o_out ELSE tmpfile(c)

\* MultiStdOut.__enter__, line 30.
EnterAcquire(c) == Acquire(c, "enter_lock", "enter")

\* Enter that leaves the lock held.
EnterKeepLock(c) ==
    /\ pc[c] = "enter"
    /\ outs' = [outs EXCEPT ![procName(c)] = (id(c) :> EnterDest(c)) @@ @]
    /\ files' = IF EnterDest(c) = o_out THEN files
                 ELSE [files EXCEPT ![EnterDest(c)[2]] = << >>]
    /\ pc' = [pc EXCEPT ![c] = IF Redirects(c) THEN "redirect" ELSE Body(c)]
    /\ UNCHANGED <<args, loc, lock, stdout, saved, sink, queue, task, result,
                   failure, outcome, exc, wreal, dout, block, hist, ncalls,
                   invoked>>

\* MultiStdOut.__enter__, lines 31-36.
Enter(c) ==
    /\ pc[c] = "enter"
    /\ outs' = [outs EXCEPT ![procName(c)] = (id(c) :> EnterDest(c)) @@ @]
    /\ files' = IF EnterDest(c) = o_out THEN files
                 ELSE [files EXCEPT ![EnterDest(c)[2]] = << >>]
    /\ lock' = NoCtx
    /\ pc' = [pc EXCEPT ![c] = IF Redirects(c) THEN "redirect" ELSE Body(c)]
    /\ UNCHANGED <<args, loc, stdout, saved, sink, queue, task, result,
                   failure, outcome, exc, wreal, dout, block, hist, ncalls,
                   invoked>>

\* redirect_stdout(out).__enter__, lines 98 and 118.
Redirect(c) ==
    /\ pc[c] = "redirect"
    /\ saved' = [saved EXCEPT ![c] = stdout[procName(c)]]
    /\ stdout' = [stdout EXCEPT ![procName(c)] = router(c)]
    /\ pc' = [pc EXCEPT ![c] = IF c = Orch THEN "mapfunc" ELSE Body(c)]
    /\ UNCHANGED <<args, loc, outs, lock, files, sink, queue, task, result,
                   failure, outcome, exc, wreal, dout, block, hist, ncalls,
                   invoked>>

\* Unredirect that leaves sys.stdout as it is.
UnredirectKeep(c) ==
    /\ pc[c] = "unredirect"
    /\ pc' = [pc EXCEPT ![c] = "dump"]
    /\ UNCHANGED <<args, loc, outs, lock, stdout, saved, files, sink, queue,
                   task, result, failure, outcome, exc, wreal, dout, block,
                   hist, ncalls, invoked>>

\* redirect_stdout(out).__exit__: sys.stdout is set back to the old target.
Unredirect(c) ==
    /\ pc[c] = "unredirect"
    /\ stdout' = [stdout EXCEPT ![procName(c)] = saved[c]]
    /\ pc' = [pc EXCEPT ![c] = "dump"]
    /\ UNCHANGED <<args, loc, outs, lock, saved, files, sink, queue, task,
                   result, failure, outcome, exc, wreal, dout, block, hist,
                   ncalls, invoked>>

\* A context writes one unit of text to sys.stdout.  Through the router this
\* is MultiStdOut.write; a sys.stdout that is the real stream takes the text
\* at once, without the lock.
CallWrite(c, real) ==
    /\ ncalls' = [ncalls EXCEPT ![key(c)] = @ + 1]
    /\ IF IsRouter(stdout[procName(c)])
       THEN /\ pc' = [pc EXCEPT ![c] = "w_lock"]
            /\ wreal' = [wreal EXCEPT ![c] = real]
            /\ UNCHANGED <<sink, hist>>
       ELSE /\ sink' = Append(sink, <<key(c), Len(hist[key(c)]) + 1, "direct">>)
            /\ hist' = [hist EXCEPT ![key(c)] = Append(@, FALSE)]
            /\ UNCHANGED <<pc, wreal>>
    /\ UNCHANGED <<args, loc, outs, lock, stdout, saved, files, queue, task,
                   result, failure, outcome, exc, dout, block, invoked>>

\* c_out that falls back to the real sink, as self.outs.get(id, o_out).
c_outDefault(c) ==
    IF id(c) \in DOMAIN registry(c) THEN registry(c)[id(c)] ELSE o_out

\* MultiStdOut.c_out: self.outs[self.id], Missing standing for the KeyError
\* of an identity with no entry.
c_out(c) ==
    IF id(c) \in DOMAIN registry(c) THEN registry(c)[id(c)] ELSE Missing

\* MultiStdOut.write, line 68.
WriteAcquire(c) == Acquire(c, "w_lock", "w_body")

\* Write that ignores `real`: the stream is always self.c_out.
WriteIgnoreReal(c) ==
    /\ pc[c] = "w_body"
    /\ lock' = NoCtx
    /\ IF c_out(c) = Missing
       THEN /\ exc' = [exc EXCEPT ![c] = <<"KeyError", key(c)>>]
            /\ pc' = [pc EXCEPT ![c] = Unwind(c)]
            /\ UNCHANGED <<files, sink, hist>>
       ELSE LET out == c_out(c)
                n == Len(hist[key(c)]) + 1
            IN /\ IF out = o_out
                  THEN /\ sink' = Append(sink, <<key(c), n, "write">>)
                       /\ UNCHANGED files
                  ELSE /\ files' = [files EXCEPT ![out[2]] =
                                       Append(@, <<key(c), n>>)]
                       /\ UNCHANGED sink
               /\ hist' = [hist EXCEPT ![key(c)] = Append(@, wreal[c])]
               /\ pc' = [pc EXCEPT ![c] = Body(c)]
               /\ UNCHANGED exc
    /\ wreal' = [wreal EXCEPT ![c] = FALSE]
    /\ UNCHANGED <<args, loc, outs, stdout, saved, queue, task, result,
                   failure, outcome, dout, block, ncalls, invoked>>

\* MultiStdOut.write, lines 69-71: the stream is the real sink when `real`,
\* else self.c_out, which raises KeyError for an identity with no entry;
\* leaving the `with` block releases the lock either way.
Write(c) ==
    /\ pc[c] = "w_body"
    /\ lock' = NoCtx
    /\ IF ~wreal[c] /\ c_out(c) = Missing
       THEN /\ exc' = [exc EXCEPT ![c] = <<"KeyError", key(c)>>]
            /\ pc' = [pc EXCEPT ![c] = Unwind(c)]
            /\ UNCHANGED <<files, sink, hist>>
       ELSE LET out == IF wreal[c] THEN o_out ELSE c_out(c)
                n == Len(hist[key(c)]) + 1
            IN /\ IF out = o_out
                  THEN /\ sink' = Append(sink, <<key(c), n, "write">>)
                       /\ UNCHANGED files
                  ELSE /\ files' = [files EXCEPT ![out[2]] =
                                       Append(@, <<key(c), n>>)]
                       /\ UNCHANGED sink
               /\ hist' = [hist EXCEPT ![key(c)] = Append(@, wreal[c])]
               /\ pc' = [pc EXCEPT ![c] = Body(c)]
               /\ UNCHANGED exc
    /\ wreal' = [wreal EXCEPT ![c] = FALSE]
    /\ UNCHANGED <<args, loc, outs, stdout, saved, queue, task, result,
                   failure, outcome, dout, block, ncalls, invoked>>

\* __exit__ that goes to the removal without flushing.
DumpLookupSkip(c) ==
    /\ pc[c] = "dump"
    /\ pc' = [pc EXCEPT ![c] = "x_lock"]
    /\ UNCHANGED <<args, loc, outs, lock, stdout, saved, files, sink, queue,
                   task, result, failure, outcome, exc, wreal, dout, block,
                   hist, ncalls, invoked>>

\* MultiStdOut._dump, lines 77-80, run by __exit__ without the lock: a
\* KeyError leaves __exit__ before the entry is deleted.
DumpLookup(c) ==
    /\ pc[c] = "dump"
    /\ IF c_out(c) = Missing
       THEN /\ exc' = [exc EXCEPT ![c] = <<"KeyError", key(c)>>]
            /\ pc' = [pc EXCEPT ![c] = "finish"]
            /\ UNCHANGED dout
       ELSE /\ dout' = [dout EXCEPT ![c] = c_out(c)]
            /\ pc' = [pc EXCEPT ![c] =
                        IF c_out(c) = o_out THEN "x_lock" ELSE "d_lock"]
            /\ UNCHANGED exc
    /\ UNCHANGED <<args, loc, outs, lock, stdout, saved, files, sink, queue,
                   task, result, failure, outcome, wreal, block, hist,
                   ncalls, invoked>>

\* DumpAcquire without `with self.lock`.
DumpAcquireNoLock(c) ==
    /\ pc[c] = "d_lock"
    /\ block' = [block EXCEPT ![c] = files[dout[c][2]]]
    /\ pc' = [pc EXCEPT ![c] = "d_write"]
    /\ UNCHANGED <<args, loc, outs, lock, stdout, saved, files, sink, queue,
                   task, result, failure, outcome, exc, wreal, dout, hist,
                   ncalls, invoked>>

\* DumpAcquire without out.seek(0): read() starts at the end of the file.
DumpAcquireNoSeek(c) ==
    /\ pc[c] = "d_lock"
    /\ lock = NoCtx
    /\ lock' = c
    /\ block' = [block EXCEPT ![c] = << >>]
    /\ pc' = [pc EXCEPT ![c] = "d_write"]
    /\ UNCHANGED <<args, loc, outs, stdout, saved, files, sink, queue, task,
                   result, failure, outcome, exc, wreal, dout, hist, ncalls,
                   invoked>>

\* MultiStdOut._dump, lines 81-83: the lock is taken and out.read() takes the
\* whole file.
DumpAcquire(c) ==
    /\ pc[c] = "d_lock"
    /\ lock = NoCtx
    /\ lock' = c
    /\ block' = [block EXCEPT ![c] = files[dout[c][2]]]
    /\ pc' = [pc EXCEPT ![c] = "d_write"]
    /\ UNCHANGED <<args, loc, outs, stdout, saved, files, sink, queue, task,
                   result, failure, outcome, exc, wreal, dout, hist, ncalls,
                   invoked>>

\* DumpWrite that does not release the lock after the block.
DumpWriteKeepLock(c) ==
    /\ pc[c] = "d_write"
    /\ IF block[c] = << >>
       THEN /\ pc' = [pc EXCEPT ![c] = "x_lock"]
            /\ UNCHANGED <<sink, block>>
       ELSE /\ sink' = Append(sink, <<Head(block[c])[1], Head(block[c])[2],
                                    "dump">>)
            /\ block' = [block EXCEPT ![c] = Tail(@)]
            /\ UNCHANGED pc
    /\ UNCHANGED <<args, loc, outs, lock, stdout, saved, files, queue, task,
                   result, failure, outcome, exc, wreal, dout, hist, ncalls,
                   invoked>>

\* MultiStdOut._dump, line 83: self.o_out.write(...) of the block, one unit
\* at a time; when the block is out, the `with` block releases the lock it
\* took.
DumpWrite(c) ==
    /\ pc[c] = "d_write"
    /\ IF block[c] = << >>
       THEN /\ lock' = IF lock = c THEN NoCtx ELSE lock
            /\ pc' = [pc EXCEPT ![c] = "x_lock"]
            /\ UNCHANGED <<sink, block>>
       ELSE /\ sink' = Append(sink, <<Head(block[c])[1], Head(block[c])[2],
                                    "dump">>)
            /\ block' = [block EXCEPT ![c] = Tail(@)]
            /\ UNCHANGED <<lock, pc>>
    /\ UNCHANGED <<args, loc, outs, stdout, saved, files, queue, task,
                   result, failure, outcome, exc, wreal, dout, hist, ncalls,
                   invoked>>

\* MultiStdOut.__exit__, line 40.
ExitAcquire(c) == Acquire(c, "x_lock", "x_del")

\* Without that deletes nothing.
WithoutNothing(reg, i) == reg

\* del reg[i]
Without(reg, i) == [j \in (DOMAIN reg) \ {i} |-> reg[j]]

\* MultiStdOut.__exit__, line 41: del self.outs[self.id].
ExitDel(c) ==
    /\ pc[c] = "x_del"
    /\ lock' = NoCtx
    /\ IF id(c) \notin DOMAIN registry(c)
       THEN /\ exc' = [exc EXCEPT ![c] = <<"KeyError", key(c)>>]
            /\ UNCHANGED outs
       ELSE /\ outs' = [outs EXCEPT ![procName(c)] = Without(@, id(c))]
            /\ UNCHANGED exc
    /\ pc' = [pc EXCEPT ![c] = "finish"]
    /\ dout' = [dout EXCEPT ![c] = o_out]
    /\ UNCHANGED <<args, loc, stdout, saved, files, sink, queue, task,
                   result, failure, outcome, wreal, block, hist, ncalls,
                   invoked>>

---------------------------------------------------------------------------
RECURSIVE Sum(_, _)
Sum(f, S) ==
    IF S = {} THEN 0
    ELSE LET x == CHOOSE y \in S : TRUE IN f[x] + Sum(f, S \ {x})

\* The write calls started so far, by all writers together.
Started == Sum(ncalls, Keys)

\* The user function, called at lines 93 and 99: it writes, returns or
\* raises.
FuncWrite(c, real) ==
    /\ pc[c] = "func"
    /\ Started < MaxWrites
    /\ CallWrite(c, real)

FuncReturn(c) ==
    /\ pc[c] = "func"
    /\ pc' = [pc EXCEPT ![c] = Unwind(c)]
    /\ UNCHANGED <<args, loc, outs, lock, stdout, saved, files, sink, queue,
                   task, result, failure, outcome, exc, wreal, dout, block,
                   hist, ncalls, invoked>>

\* FuncRaise outside a `with` block: __exit__ does not run.
FuncRaiseNoExit(c) ==
    /\ pc[c] = "func"
    /\ exc' = [exc EXCEPT ![c] = <<"UserError", key(c)>>]
    /\ pc' = [pc EXCEPT ![c] = "finish"]
    /\ UNCHANGED <<args, loc, outs, lock, stdout, saved, files, sink, queue,
                   task, result, failure, outcome, wreal, dout, block, hist,
                   ncalls, invoked>>

FuncRaise(c) ==
    /\ pc[c] = "func"
    /\ exc' = [exc EXCEPT ![c] = <<"UserError", key(c)>>]
    /\ pc' = [pc EXCEPT ![c] = Unwind(c)]
    /\ UNCHANGED <<args, loc, outs, lock, stdout, saved, files, sink, queue,
                   task, result, failure, outcome, wreal, dout, block, hist,
                   ncalls, invoked>>

\* Output of the orchestrating context inside its session (lines 117-119).
OrchWrite(real) ==
    /\ pc[Orch] = "wait"
    /\ Started < MaxWrites
    /\ CallWrite(Orch, real)

\* Another thread of the main process, with no session of its own, prints
\* while sys.stdout is the router.
OutsiderWrite(real) ==
    /\ pc[Outsider] = "idle"
    /\ Started < MaxWrites
    /\ IsRouter(stdout[MainProcess])
    /\ CallWrite(Outsider, real)

Init == InitWith(ArgSets)

Next ==
    \/ MapSetup
    \/ PoolCreate
    \/ MapSubmit
    \/ MapWait
    \/ MapFinish
    \/ \E w \in Workers : WorkerTake(w)
    \/ \E w \in Workers : WorkerFinish(w)
    \/ \E c \in Ctx : \E real \in BOOLEAN : FuncWrite(c, real)
    \/ \E c \in Ctx : FuncReturn(c)
    \/ \E c \in Ctx : FuncRaise(c)
    \/ \E real \in BOOLEAN : OrchWrite(real)
    \/ \E c \in Ctx : EnterAcquire(c)
    \/ \E c \in Ctx : Enter(c)
    \/ \E c \in Ctx : Redirect(c)
    \/ \E c \in Ctx : Unredirect(c)
    \/ \E c \in Ctx : WriteAcquire(c)
    \/ \E c \in Ctx : Write(c)
    \/ \E c \in Ctx : DumpLookup(c)
    \/ \E c \in Ctx : DumpAcquire(c)
    \/ \E c \in Ctx : DumpWrite(c)
    \/ \E c \in Ctx : ExitAcquire(c)
    \/ \E c \in Ctx : ExitDel(c)

Spec == Init /\ [][Next]_vars

\* map() called by the user function of a work item of an enclosing threaded
\* map() call: the enclosing call has installed its router as sys.stdout and
\* holds the entry of its own orchestrator.
NestedArgs ==
    [threaded : {TRUE}, fg : {FALSE}, buffered : BOOLEAN, processes : {1},
     caller : {WorkThread}, outer : {"buffered", "unbuffered"}]

InitNested ==
    /\ args \in NestedArgs
    /\ loc = [poolcls |-> "none", processes |-> 0, buffered |-> FALSE,
              call |-> "none"]
    /\ pc = [c \in Ctx |-> IF c = Invoker THEN "enter_lock" ELSE "absent"]
    /\ outs = [p \in Procs |->
                 IF p = MainProcess THEN (MainThread :> o_out) ELSE EmptyOuts]
    /\ lock = NoCtx
    /\ stdout = [p \in Procs |->
                   IF p = MainProcess THEN router(Outsider) ELSE o_out]
    /\ saved = [c \in Ctx |-> o_out]
    /\ files = [k \in Keys |-> << >>]
    /\ sink = << >>
    /\ queue = << >>
    /\ task = [w \in Workers |-> 0]
    /\ result = [i \in Items |-> NoExc]
    /\ failure = NoFailure
    /\ outcome = Running
    /\ exc = [c \in Ctx |-> NoExc]
    /\ wreal = [c \in Ctx |-> FALSE]
    /\ dout = [c \in Ctx |-> o_out]
    /\ block = [c \in Ctx |-> << >>]
    /\ hist = [k \in Keys |-> << >>]
    /\ ncalls = [k \in Keys |-> 0]
    /\ invoked = [i \in Items |-> 0]

\* The user function of the work item calls map().
InvokerCall ==
    /\ pc[Invoker] = "func"
    /\ pc[Orch] = "absent"
    /\ pc' = [pc EXCEPT ![Invoker] = "calling", ![Orch] = "start"]
    /\ UNCHANGED <<args, loc, outs, lock, stdout, saved, files, sink, queue,
                   task, result, failure, outcome, exc, wreal, dout, block,
                   hist, ncalls, invoked>>

\* map() returns to the user function, or raises into it.
InvokerResume ==
    /\ pc[Invoker] = "calling"
    /\ pc[Orch] = "done"
    /\ IF outcome = Returned
       THEN /\ pc' = [pc EXCEPT ![Invoker] = "func"]
            /\ UNCHANGED exc
       ELSE /\ pc' = [pc EXCEPT ![Invoker] = Unwind(Invoker)]
            /\ exc' = [exc EXCEPT ![Invoker] = outcome]
    /\ UNCHANGED <<args, loc, outs, lock, stdout, saved, files, sink, queue,
                   task, result, failure, outcome, wreal, dout, block, hist,
                   ncalls, invoked>>

NextNested ==
    \/ Next
    \/ InvokerCall
    \/ InvokerResume

SpecNested == InitNested /\ [][NextNested]_vars

\* map() with threads, while another thread of the process prints.
StrayArgs ==
    [threaded : {TRUE}, fg : {FALSE}, buffered : BOOLEAN, processes : {1},
     caller : {MainThread}, outer : {"none"}]

InitStray == InitWith(StrayArgs)

NextStray ==
    \/ Next
    \/ \E real \in BOOLEAN : OutsiderWrite(real)

SpecStray == InitStray /\ [][NextStray]_vars

\* Every step context c can take: the caller of map() runs lines 106-119,
\* a pool worker takes items and runs the work wrapper on them.
Step(c) ==
    \/ c = Orch /\ (MapSetup \/ PoolCreate \/ MapSubmit \/ MapWait \/ MapFinish)
    \/ c = Orch /\ \E real \in BOOLEAN : OrchWrite(real)
    \/ c \in Workers /\ (WorkerTake(c) \/ WorkerFinish(c))
    \/ \E real \in BOOLEAN : FuncWrite(c, real)
    \/ FuncReturn(c) \/ FuncRaise(c)
    \/ EnterAcquire(c) \/ Enter(c) \/ Redirect(c) \/ Unredirect(c)
    \/ WriteAcquire(c) \/ Write(c)
    \/ DumpLookup(c) \/ DumpAcquire(c) \/ DumpWrite(c)
    \/ ExitAcquire(c) \/ ExitDel(c)

\* A buffered map() whose threads and processes are scheduled fairly: a
\* context that can go on does go on, so a user function, which takes
\* finitely many steps, ends.
FairArgs ==
    [threaded : {TRUE}, fg : {FALSE}, buffered : {TRUE}, processes : {0},
     caller : {MainThread}, outer : {"none"}]

InitFair == InitWith(FairArgs)

SpecFair ==
    /\ InitFair
    /\ [][Next]_vars
    /\ \A c \in {Orch} \cup Workers : WF_vars(Step(c))

\* A second map() call, made with the default arguments on another thread of
\* the process while this one runs: it opens its top-level session (lines
\* 117-118) at any time; its work items are not followed.
OverlapArgs ==
    [threaded : {TRUE}, fg : {FALSE}, buffered : {TRUE}, processes : {1},
     caller : {MainThread}, outer : {"none"}]

InitOverlap == InitWith(OverlapArgs)

\* The other thread calls map() and comes to line 117.
OtherCall ==
    /\ pc[Other] = "absent"
    /\ pc' = [pc EXCEPT ![Other] = "enter_lock"]
    /\ UNCHANGED <<args, loc, outs, lock, stdout, saved, files, sink, queue,
                   task, result, failure, outcome, exc, wreal, dout, block,
                   hist, ncalls, invoked>>

\* The pool's map of the other call (line 119) is over.
OtherMapDone ==
    /\ pc[Other] = "running"
    /\ pc' = [pc EXCEPT ![Other] = "unredirect"]
    /\ UNCHANGED <<args, loc, outs, lock, stdout, saved, files, sink, queue,
                   task, result, failure, outcome, exc, wreal, dout, block,
                   hist, ncalls, invoked>>

NextOverlap ==
    \/ Next
    \/ OtherCall
    \/ OtherMapDone

SpecOverlap == InitOverlap /\ [][NextOverlap]_vars

\* map() with threads, called on the main thread or on a thread the user
\* started.
ThreadArgs ==
    [threaded : {TRUE}, fg : BOOLEAN, buffered : BOOLEAN, processes : {1},
     caller : {MainThread, UserThread}, outer : {"none"}]

InitThread == InitWith(ThreadArgs)

SpecThread == InitThread /\ [][Next]_vars

---------------------------------------------------------------------------
\* What the real sink has received from writer k: everything, what a flush
\* brought, what a write brought directly.
Received(k) == SelectSeq(sink, LAMBDA e : e[1] = k)
Flushed(k) == SelectSeq(sink, LAMBDA e : e[1] = k /\ e[3] = "dump")
Direct(k) == SelectSeq(sink, LAMBDA e : e[1] = k /\ e[3] # "dump")
Idx(s) == [j \in 1 .. Len(s) |-> s[j][2]]
Count(n) == [j \in 1 .. n |-> j]

\* The writes of h, by number, whose `real` is flag.
Which(h, flag) == SelectSeq(Count(Len(h)), LAMBDA n : h[n] = flag)

\* The session of item i has exited.
Exited(i) ==
    \/ result[i] # NoExc
    \/ \E w \in Workers : task[w] = i /\ pc[w] = "finish"

\* The flushed block of writer k is contiguous on the sink.
Contiguous(k) ==
    \A p, q \in 1 .. Len(sink) :
        (p < q /\ sink[p][1] = k /\ sink[q][1] = k
           /\ sink[p][3] = "dump" /\ sink[q][3] = "dump")
        => \A r \in p .. q : sink[r][1] = k /\ sink[r][3] = "dump"

\* The sink holds every write of item i once and in order: the writes with
\* real=False in its flushed block, the writes with real=True directly.
Delivered(i) ==
    /\ Idx(Flushed(i)) = (IF loc.buffered THEN Which(hist[i], FALSE) ELSE << >>)
    /\ Idx(Direct(i)) = (IF loc.buffered THEN Which(hist[i], TRUE)
                         ELSE Count(Len(hist[i])))

\* C1: with buffering on, the block a session flushes to the real sink is
\* contiguous: nothing another work item writes or flushes lies between its
\* first and its last unit.
Isolation == loc.buffered => \A i \in Items : Contiguous(i)

\* A worker is in the middle of its block while another waits for the lock
\* to write or to flush.
IsolationWitness ==
    \E a, b \in Workers :
        /\ a # b
        /\ loc.buffered
        /\ pc[b] = "d_write" /\ block[b] # << >> /\ Flushed(task[b]) # << >>
        /\ pc[a] \in {"w_lock", "d_lock"}

\* C2 as stated: once a buffered item's session has exited, what the sink
\* received for it is all its writes in program order.
OrderPreservedAllWrites ==
    \A i \in Items :
        (loc.buffered /\ Exited(i)) => Idx(Received(i)) = Count(Len(hist[i]))

\* C2 amended: once a buffered item's session has exited, its flushed block
\* is its writes with real=False, each once and in program order, and its
\* writes with real=True are on the sink, each once and in program order.
OrderPreserved ==
    \A i \in Items : (loc.buffered /\ Exited(i)) => Delivered(i)

\* An item has exited with a block of two writes while another item's output
\* is on the sink as well.
OrderPreservedWitness ==
    \E i, j \in Items :
        /\ i # j
        /\ loc.buffered /\ Exited(i)
        /\ Len(Flushed(i)) >= 2
        /\ Received(j) # << >>

\* C3: without buffering every write is on the sink when it returns, none is
\* dropped, and the exit flush writes nothing.
PassThrough ==
    (args.fg \/ ~args.buffered) =>
        /\ \A k \in Keys : Idx(Direct(k)) = Count(Len(hist[k]))
        /\ \A k \in Keys : Flushed(k) = << >>
        /\ \A c \in Ctx : pc[c] \notin {"d_lock", "d_write"}

\* A foreground call asked to buffer: an item has written with real=False
\* and its session has exited.
PassThroughWitness ==
    /\ args.fg /\ args.buffered
    /\ \E i \in Items : Exited(i) /\ hist[i] # << >> /\ ~hist[i][1]

\* C4: the identity 'MainThread' is only ever registered with the real
\* sink, so each of its writes is on the sink when it returns and none is in
\* a temporary file.
OrchestratorExempt ==
    /\ \A p \in Procs :
          MainThread \in DOMAIN outs[p] => outs[p][MainThread] = o_out
    /\ args.caller = MainThread =>
          /\ Idx(Direct(Orch)) = Count(Len(hist[Orch]))
          /\ files[Orch] = << >>

\* The orchestrator of a buffered call has written with real=False inside
\* its session.
OrchestratorExemptWitness ==
    /\ args.caller = MainThread /\ loc.buffered
    /\ pc[Orch] = "wait"
    /\ hist[Orch] # << >> /\ ~hist[Orch][1]

\* C5: when map() has returned or raised, no process's registry holds an
\* entry.
NoLeak == outcome # Running => \A p \in Procs : DOMAIN outs[p] = {}

\* map() has raised the error of a user function.
NoLeakWitness == outcome[1] = "UserError"

\* C6: a work item whose user function raised has, when the wrapper is left,
\* its output on the sink (the buffered part as one block) and no registry
\* entry; no item is invoked twice; map() raises the error of an item that
\* failed, as recorded, and returns only when none failed.
FailureDelivered ==
    /\ \A w \in Workers :
          (pc[w] = "finish" /\ exc[w][1] = "UserError") =>
              /\ Delivered(task[w])
              /\ Contiguous(task[w])
              /\ id(w) \notin DOMAIN registry(w)
    /\ \A i \in Items : invoked[i] <= 1
    /\ outcome # Running =>
          IF \E i \in Items : result[i] # Ok
          THEN /\ failure[1] \in Items
               /\ outcome = <<"UserError", failure[1]>>
               /\ result[failure[1]] = outcome
          ELSE outcome = Returned

\* A buffered item has failed after a write with real=False and its wrapper
\* has been left.
FailureDeliveredWitness ==
    \E w \in Workers :
        /\ loc.buffered
        /\ pc[w] = "finish" /\ exc[w][1] = "UserError"
        /\ Flushed(task[w]) # << >>

\* The outputs of the items are on the sink in input order.
InInputOrder ==
    \A p, q \in 1 .. Len(sink) :
        (p < q /\ sink[p][1] \in Items /\ sink[q][1] \in Items)
        => sink[p][1] <= sink[q][1]

\* C7: with fg=True the pool is a thread pool of one worker, buffering is
\* off, and the items' outputs reach the sink in input order.
Foreground ==
    (args.fg /\ pc[Orch] # "start") =>
        /\ loc.poolcls = "ThreadPool"
        /\ loc.processes = 1
        /\ ~loc.buffered
        /\ \A w \in Workers : w > 1 => pc[w] = "absent"
        /\ InInputOrder

\* A foreground call with threaded=False, buffered=True and a worker count
\* of its own has put the output of two items on the sink.
ForegroundWitness ==
    /\ args.fg /\ ~args.threaded /\ args.buffered /\ args.processes = NumItems
    /\ \E i, j \in Items : i # j /\ Received(i) # << >> /\ Received(j) # << >>

\* C8: a write with real=False by an identity with no registry entry ends
\* with KeyError: the sink, every temporary file and the registry are
\* unchanged and the lock is free.
StrayWriteFails ==
    [][\A c \in Ctx :
         (pc[c] = "w_body" /\ pc'[c] # "w_body" /\ ~wreal[c]
            /\ id(c) \notin DOMAIN registry(c))
         => /\ exc'[c][1] = "KeyError"
            /\ sink' = sink /\ files' = files /\ hist' = hist
            /\ outs' = outs
            /\ lock' = NoCtx]_vars

\* A thread with no session has had its write fail while a session of the
\* map() call was open.
StrayWriteFailsWitness ==
    /\ exc[Outsider][1] = "KeyError"
    /\ lock = NoCtx
    /\ DOMAIN outs[MainProcess] # {}

\* C9: when map() returns, every item has been invoked, every session has
\* exited and every item's output is on the sink.
MapBlocks ==
    outcome = Returned =>
        /\ \A i \in Items : invoked[i] = 1 /\ result[i] = Ok /\ Delivered(i)
        /\ \A w \in Workers :
              /\ pc[w] \in {"absent", "stopped"}
              /\ task[w] = 0
              /\ block[w] = << >>

\* A buffered map() over items that all wrote with real=False has returned.
MapBlocksWitness ==
    /\ outcome = Returned /\ loc.buffered
    /\ \A i \in Items : Flushed(i) # << >>

\* C10: while the session of a work item that calls map() is open, its
\* identity stays registered with the stream the session registered.
NestedKeepsEntry ==
    pc[Invoker] \in {"func", "calling", "w_lock", "w_body", "dump", "d_lock",
                     "d_write", "x_lock", "x_del"}
    => c_out(Invoker) = EnterDest(Invoker)

\* The orchestrator's session holds its output back: the call buffers and was
\* not made on the main thread.
OrchHeld == loc.buffered /\ args.caller # MainThread

\* The orchestrator's session is open and has not flushed.
OrchOpen ==
    pc[Orch] \in {"redirect", "mapfunc", "wait", "w_lock", "w_body",
                  "unredirect", "dump", "d_lock"}

\* C11 as stated: while the session of the orchestrator of a buffered call
\* is open, none of its writes with real=False is on the sink.
OrchBatchingAsStated ==
    (args.buffered /\ ~args.fg /\ OrchOpen) =>
        \A j \in 1 .. Len(sink) :
            sink[j][1] = Orch => hist[Orch][sink[j][2]]

\* C11 amended: the orchestrator's writes with real=False are held back, and
\* reach the sink as its block when its session exits, only when the call
\* buffers and was made on a thread other than 'MainThread'; otherwise each
\* of its writes is on the sink when it returns.
OrchBatching ==
    /\ Idx(Direct(Orch)) = (IF OrchHeld THEN Which(hist[Orch], TRUE)
                            ELSE Count(Len(hist[Orch])))
    /\ (~OrchHeld \/ OrchOpen) => Flushed(Orch) = << >>
    /\ (OrchHeld /\ pc[Orch] \in {"x_lock", "x_del", "finish", "done"}) =>
          Idx(Flushed(Orch)) = Which(hist[Orch], FALSE)

\* A buffered call made on a user thread has ended and the orchestrator's
\* block is on the sink.
OrchBatchingWitness ==
    /\ OrchHeld /\ pc[Orch] = "done"
    /\ Flushed(Orch) # << >>

\* Context c takes a step that reads or changes the registry or writes to the
\* real sink: registration, the lookup of write, the lookup of _dump, the
\* write of a flushed block, removal.
Accesses(c) ==
    \/ pc[c] \in {"enter", "w_body", "dump", "x_del"} /\ pc'[c] # pc[c]
    \/ pc[c] = "d_write" /\ sink' # sink

\* C12: every step that reads or changes the registry, and every write to the
\* real sink, is taken by a context that holds the global lock.
LockCoverage == [][\A c \in Ctx : Accesses(c) => lock = c]_vars

\* Context c has entered a session of the call and has not left it.
InSession(c) ==
    /\ c \in {Orch} \cup Workers
    /\ pc[c] \in {"redirect", "mapfunc", "wait", "func", "w_lock", "w_body",
                  "unredirect", "dump", "d_lock", "d_write", "x_lock",
                  "x_del"}

\* C13: every session that is entered and not exited has the entry of its own
\* identity, holding the destination it registered; two sessions active at
\* once never have the same identity; a temporary file is the destination of
\* one identity at most and holds only what its owner wrote.
SessionOwnership ==
    /\ \A c \in Ctx : InSession(c) => c_out(c) = EnterDest(c)
    /\ \A c, d \in Ctx :
          (c # d /\ InSession(c) /\ InSession(d)) =>
              /\ procName(c) = procName(d) => id(c) # id(d)
              /\ c_out(c) = c_out(d) => c_out(c) = o_out
    /\ \A p \in Procs : \A i, j \in DOMAIN outs[p] :
          (i # j /\ outs[p][i] = outs[p][j]) => outs[p][i] = o_out
    /\ \A k \in Keys : \A n \in 1 .. Len(files[k]) : files[k][n][1] = k

\* Two workers are in their sessions at once and each has written to its own
\* temporary file.
SessionOwnershipWitness ==
    \E c, d \in Workers :
        /\ c # d /\ InSession(c) /\ InSession(d)
        /\ c_out(c) = tmpfile(c) /\ c_out(d) = tmpfile(d)
        /\ files[key(c)] # << >> /\ files[key(d)] # << >>

\* C14: once map() has built the wrapper, it is the thread variant exactly
\* when the pool is a thread pool, the pool is a thread pool exactly when
\* threaded or fg is given, and the wrapper's buffering flag is the resolved
\* one, False whenever fg is given.
WrapperMatchesPool ==
    pc[Orch] # "start" =>
        /\ loc.poolcls = (IF args.threaded \/ args.fg THEN "ThreadPool"
                          ELSE "Pool")
        /\ loc.call = "ThreadedCallable" <=> loc.poolcls = "ThreadPool"
        /\ loc.call = "ProcessCallable" <=> loc.poolcls = "Pool"
        /\ loc.buffered = (args.buffered /\ ~args.fg)

\* C15: the lock is held only inside one registration, one write, one block
\* write of a flush or one removal, so a context that has left one of them
\* has released it; no context holds it while it runs the user function.
LockOnlyInSections ==
    /\ lock \in Ctx \cup {NoCtx}
    /\ \A c \in Ctx :
          /\ lock = c => pc[c] \in {"enter", "w_body", "d_write", "x_del"}
          /\ pc[c] \in {"func", "calling"} => lock # c

\* A worker runs the user function while another worker holds the lock in
\* write.
LockOnlyInSectionsWitness ==
    \E c, d \in Workers :
        /\ lock = c /\ pc[c] = "w_body"
        /\ pc[d] = "func" /\ hist[key(d)] # << >>

\* C16: __exit__ flushes first and removes the entry afterwards.  While a
\* session is flushing its entry is still registered; it comes to the
\* removal only when the flush is over: nothing flushed when its destination
\* is the real sink, else the whole content of its buffer on the sink as one
\* contiguous block; and no flush starts before __exit__.
FlushThenRelease ==
    \A c \in {Orch} \cup Workers :
        /\ pc[c] \in {"dump", "d_lock", "d_write", "x_lock", "x_del"} =>
              c_out(c) = EnterDest(c)
        /\ pc[c] \in {"dump", "d_lock"} => Flushed(key(c)) = << >>
        /\ pc[c] \in {"x_lock", "x_del", "finish"} =>
              /\ Idx(Flushed(key(c))) =
                    (IF EnterDest(c) = o_out THEN << >>
                     ELSE Which(hist[key(c)], FALSE))
              /\ Contiguous(key(c))

\* A worker stands before the removal of its entry with its buffered output
\* already on the sink.
FlushThenReleaseWitness ==
    \E c \in Workers :
        /\ pc[c] = "x_del" /\ c_out(c) = tmpfile(c)
        /\ Len(Flushed(key(c))) > 1

\* Context c leaves the body of write.
Writes(c) == pc[c] = "w_body" /\ pc'[c] # "w_body"

\* C17: write with real=True appends the text to the real sink and changes
\* no buffer and no registry, and succeeds for a caller with no entry; write
\* with real=False by a caller with an entry appends the text to the
\* destination of that entry only, leaving every other buffer, the registry
\* and, when the destination is a buffer, the real sink as they were.
WriteFrame ==
    [][\A c \in Ctx :
         Writes(c) =>
           LET n == Len(hist[key(c)]) + 1
               onSink == sink' = Append(sink, <<key(c), n, "write">>)
           IN /\ outs' = outs
              /\ wreal[c] =>
                    onSink /\ files' = files /\ exc'[c] = exc[c]
              /\ (~wreal[c] /\ id(c) \in DOMAIN registry(c)) =>
                    LET out == registry(c)[id(c)]
                    IN IF out = o_out
                       THEN onSink /\ files' = files
                       ELSE /\ sink' = sink
                            /\ files' = [files EXCEPT ![out[2]] =
                                            Append(@, <<key(c), n>>)]]_vars

\* A thread with no entry has written with real=True, while a worker's
\* session holds output in its buffer.
WriteFrameWitness ==
    /\ outs[MainProcess] # EmptyOuts
    /\ OtherThread \notin DOMAIN outs[MainProcess]
    /\ Received(Outsider) # << >> /\ exc[Outsider] = NoExc
    /\ \E w \in Workers : InSession(w) /\ c_out(w) = tmpfile(w)
                            /\ files[key(w)] # << >>

\* Worker w of the main process is inside its own redirect_stdout.
Redirected(w) ==
    /\ Redirects(w) /\ procName(w) = MainProcess
    /\ pc[w] \in {"func", "w_lock", "w_body", "unredirect"}

\* C18: sys.stdout of the calling process is the real stream until the
\* top-level session has redirected it (line 118, the first statement inside
\* the session); from then until the pool's map has finished it is a router:
\* the top-level one, or that of the pool thread which a process-variant
\* wrapper has redirected (fg with threaded=False); and from the end of the
\* redirection on, so when map() has returned or raised, it is the real
\* stream again.
AmbientScoped ==
    /\ pc[Orch] \in {"mapfunc", "wait", "w_lock", "w_body", "unredirect"} =>
          \/ stdout[MainProcess] = router(Orch)
          \/ \E w \in Workers :
                Redirected(w) /\ stdout[MainProcess] = router(w)
    /\ pc[Orch] \notin {"mapfunc", "wait", "w_lock", "w_body", "unredirect"}
          => stdout[MainProcess] = o_out
    /\ outcome # Running => stdout[MainProcess] = o_out

\* map() with fg and threaded=False has ended after its pool thread ran an
\* item that wrote, and the failure of an item was raised.
AmbientScopedWitness ==
    /\ outcome \notin {Running, Returned}
    /\ args.fg /\ ~args.threaded
    /\ \E i \in Items : Received(i) # << >>

\* C19: when a second map() call on another thread overlaps this one, every
\* write of every work item still goes through the router to the item's own
\* destination: none reaches the real sink past the router, none fails for
\* want of an entry; and when both calls have left their sessions,
\* sys.stdout is the real stream again.
OverlapRouted ==
    /\ \A j \in 1 .. Len(sink) : sink[j][3] # "direct"
    /\ \A c \in Ctx : exc[c][1] # "KeyError"
    /\ (pc[Orch] = "done" /\ pc[Other] = "finish") =>
          stdout[MainProcess] = o_out

\* Context c waits for the global lock.
Waits(c) == pc[c] \in {"enter_lock", "w_lock", "d_lock", "x_lock"}

\* The call is over: map() has returned or raised, no context is in a
\* session or waits for the lock, and the lock is free.
Quiescent ==
    /\ outcome # Running
    /\ lock = NoCtx
    /\ \A c \in Ctx : ~InSession(c) /\ ~Waits(c)

\* C20: under fair scheduling with user functions that end, the call always
\* comes to rest with map() returned or raised, every session exited, no
\* context left waiting for the global lock and the lock released; and a
\* context stops waiting only by getting the lock, so every waiter gets it.
Progress ==
    /\ <>[]Quiescent
    /\ [][\A c \in Ctx : (Waits(c) /\ ~Waits(c)') => lock' = c]_vars

\* A worker waits for the lock another worker holds while it flushes.
ProgressWitness ==
    \E c, d \in Workers :
        /\ c # d /\ Waits(c)
        /\ lock = d /\ pc[d] = "d_write" /\ block[d] # << >>

====
